---- MODULE Spec2Model ----
(***************************************************************************)
(* LyricsIR: the two scripts of the repository as one state machine.       *)
(*   BoolLyricsIR.py    inverted index, boolean and phrase search          *)
(*   VectorLyricsIR.py  TF-IDF index, vsm_search, LSI model, evaluation    *)
(* A run is a run of one script (prog); both keep their index in module    *)
(* level globals, which are the variables below.  A Python dict is an      *)
(* insertion-ordered sequence of <<key, value>> pairs, a Python set a set. *)
(***************************************************************************)
EXTENDS Integers, Sequences, FiniteSets, TLC

VARIABLES
    prog,            \* which script runs: "bool", "vector", or the evaluation functions alone ("eval")
    pc,              \* "idle": ready for a call; "returned": a call has returned res
    op,              \* the last call: [name, arg]
    res,             \* what the last call returned: [kind, val]
    inverted_index,  \* BoolLyricsIR.py:6    term -> doc_id -> [positions]
    term_doc_freq,   \* VectorLyricsIR.py:8  term -> doc_id -> freq
    doc_map,         \* doc_id -> <<artist, title>>
    doc_lengths,     \* VectorLyricsIR.py:10 doc_id -> vector length
    doc_id_counter,
    lsi,             \* VectorLyricsIR.py:13-19 the LSI globals
    enumerated,      \* history: every indexed file, in the order it was enumerated
    built            \* history: the index maps as the last build_index left them

vars == <<prog, pc, op, res, inverted_index, term_doc_freq, doc_map, doc_lengths,
          doc_id_counter, lsi, enumerated, built>>

(***************************************************************************)
(* Bounds of the model.                                                    *)
(***************************************************************************)
MaxBoolDocs == 2
MaxVecDocs == 3
MaxListing == 2
MaxQueryLen == 4
MaxPhraseLen == 3
MaxTerms == 2
MaxRank == 3

Max(a, b) == IF a >= b THEN a ELSE b

Min(a, b) == IF a <= b THEN a ELSE b

SeqsUpTo(S, n) == UNION {[1..k -> S] : k \in 0..n}

\* the listings of at most n entries: a directory lists no entry twice
Listings(S, n) == {s \in SeqsUpTo(S, n) : \A i, j \in 1..Len(s) : s[i] = s[j] => i = j}

RECURSIVE Listed(_, _)
\* the first n values of f as a list
Listed(f, n) == IF n = 0 THEN <<>> ELSE Append(Listed(f, n - 1), f[n])

Range(s) == {s[i] : i \in 1..Len(s)}

\* the largest member of a non-empty set of integers
MaxOf(S) == CHOOSE r \in S : \A x \in S : x <= r

(***************************************************************************)
(* Python dict: insertion-ordered pairs.                                   *)
(***************************************************************************)
DKeys(d) == [i \in 1..Len(d) |-> d[i][1]]

DKeySet(d) == {d[i][1] : i \in 1..Len(d)}

DHas(d, k) == \E i \in 1..Len(d) : d[i][1] = k

DGet(d, k) == d[CHOOSE i \in 1..Len(d) : d[i][1] = k][2]

\* dict.get(k, default): never inserts
DGetOr(d, k, default) == IF DHas(d, k) THEN DGet(d, k) ELSE default

\* d[k] = v
DSet(d, k, v) ==
    IF DHas(d, k)
    THEN [i \in 1..Len(d) |-> IF d[i][1] = k THEN <<k, v>> ELSE d[i]]
    ELSE Append(d, <<k, v>>)

\* the dict after evaluating d[k] on a defaultdict: an absent key is inserted
\* with the factory's empty value
DefaultTouch(d, k, empty) == IF DHas(d, k) THEN d ELSE Append(d, <<k, empty>>)

(***************************************************************************)
(* Text.  A text is the sequence of its whitespace-separated chunks.       *)
(***************************************************************************)
stopwords ==
    {"a", "an", "the", "is", "are", "was", "were", "am", "be", "been", "being",
     "and", "or", "but", "if", "then", "this", "that", "these", "those",
     "in", "on", "at", "for", "with", "of", "to", "by", "as", "from"}

\* str.lower() on one chunk
Lower(c) ==
    CASE c = "Love!" -> "love!"
      [] c = "Love" -> "love"
      [] c = "War" -> "war"
      [] c = "Not" -> "not"
      [] OTHER -> c

\* re.sub(r"[^a-z0-9\s]", "", .) on one lowercased chunk
StripNonAlnum(c) ==
    CASE c = "love!" -> "love"
      [] c = "!" -> ""
      [] OTHER -> c

\* str.split() drops what the substitution emptied
SplitChunks(text) == SelectSeq(text, LAMBDA c : c /= "")

preprocess(text) ==
    LET lowered == [i \in 1..Len(text) |-> Lower(text[i])]
        cleaned == [i \in 1..Len(lowered) |-> StripNonAlnum(lowered[i])]
        tokens == SplitChunks(cleaned)
    IN SelectSeq(tokens, LAMBDA token : token \notin stopwords)

\* filename.endswith(".txt")
EndsWithTxt(filename) == filename \in {"one.txt", "two.txt", "three.txt", "four.txt"}

\* os.path.splitext(filename)[0]
SplitExt(filename) ==
    CASE filename = "one.txt" -> "one"
      [] filename = "two.txt" -> "two"
      [] filename = "three.txt" -> "three"
      [] filename = "four.txt" -> "four"
      [] filename = "cover.jpg" -> "cover"
      [] OTHER -> filename

\* f"{artist}/{song_title}"
Label(artist, title) == <<artist, title>>

(***************************************************************************)
(* What os.listdir can enumerate: entries of the corpus directory.         *)
(***************************************************************************)
Entry(artist, isdir, filename, content) ==
    [artist |-> artist, isdir |-> isdir, filename |-> filename, content |-> content]

BoolEntries ==
    {Entry("A", TRUE, "one.txt", <<"love", "is", "war">>),
     Entry("B", TRUE, "one.txt", <<"is">>),
     Entry("B", TRUE, "two.txt", <<"Love!", "love", "war">>),
     Entry("A", TRUE, "cover.jpg", <<"war">>),
     Entry("README", FALSE, "", <<>>)}

VecEntries ==
    {Entry("A", TRUE, "one.txt", <<"love", "love", "song">>),
     Entry("A", TRUE, "two.txt", <<"Love", "is", "blind">>),
     Entry("A", TRUE, "three.txt", <<"war", "and", "peace">>),
     Entry("B", TRUE, "four.txt", <<"the">>),
     Entry("B", TRUE, "cover.jpg", <<"love">>)}

Indexed(e) == e.isdir /\ EndsWithTxt(e.filename)

IndexedOf(listing) == SelectSeq(listing, Indexed)

BoolChunks == {"love", "War", "not", "and", "or"}

PhraseChunks == {"love", "is", "war", "Love!"}

VecTerms == {"love", "war"}

(***************************************************************************)
(* Results of a call.                                                      *)
(***************************************************************************)
NoResult == [kind |-> "nothing", val |-> <<>>]

SetResult(s) == [kind |-> "set", val |-> s]

NoneResult == [kind |-> "None", val |-> <<>>]

Raised(what) == [kind |-> "raised", val |-> what]

Ranking(items) == [kind |-> "ranking", val |-> items]

Snapshot(ii, tdf, dm, dl) ==
    [inverted_index |-> ii, term_doc_freq |-> tdf, doc_map |-> dm, doc_lengths |-> dl]

\* the script p is between two calls
Ready(p) == prog = p /\ pc = "idle"

(***************************************************************************)
(* BoolLyricsIR.py                                                         *)
(***************************************************************************)
RECURSIVE IndexTokens(_, _, _, _)
\* for pos, token in enumerate(tokens): inverted_index[token][doc_id].append(pos)
IndexTokens(idx, tokens, doc_id, n) ==
    IF n > Len(tokens) THEN idx
    ELSE LET token == tokens[n]
             pos == n - 1
             outer == DefaultTouch(idx, token, <<>>)
             inner == DefaultTouch(DGet(outer, token), doc_id, <<>>)
             inner2 == DSet(inner, doc_id, Append(DGet(inner, doc_id), pos))
         IN IndexTokens(DSet(outer, token, inner2), tokens, doc_id, n + 1)

RECURSIVE BoolBuildLoop(_, _, _)
\* the two nested listdir loops over one flattened listing; st = [idx, dm, ctr]
BoolBuildLoop(st, listing, n) ==
    IF n > Len(listing) THEN st
    ELSE LET e == listing[n] IN
         IF ~e.isdir THEN BoolBuildLoop(st, listing, n + 1)
         ELSE IF ~EndsWithTxt(e.filename) THEN BoolBuildLoop(st, listing, n + 1)
         ELSE LET doc_id == st.ctr + 1
                  song_title == SplitExt(e.filename)
                  dm == DSet(st.dm, doc_id, Label(e.artist, song_title))
                  tokens == preprocess(e.content)
              IN BoolBuildLoop([idx |-> IndexTokens(st.idx, tokens, doc_id, 1),
                                dm |-> dm, ctr |-> doc_id], listing, n + 1)

\* a numbering that starts over at every call
BuildStartReset(ctr) == 0

BoolBuildStart(ctr) == ctr

bool_build_index(listing) ==
    /\ Ready("bool")
    /\ doc_id_counter + Len(IndexedOf(listing)) <= MaxBoolDocs
    /\ LET st == BoolBuildLoop([idx |-> inverted_index, dm |-> doc_map,
                                ctr |-> BoolBuildStart(doc_id_counter)], listing, 1)
       IN /\ inverted_index' = st.idx
          /\ doc_map' = st.dm
          /\ doc_id_counter' = st.ctr
          /\ built' = Snapshot(st.idx, term_doc_freq, st.dm, doc_lengths)
    /\ enumerated' = enumerated \o IndexedOf(listing)
    /\ op' = [name |-> "build_index", arg |-> <<>>]
    /\ res' = NoneResult
    /\ pc' = "returned"
    /\ UNCHANGED <<prog, term_doc_freq, doc_lengths, lsi>>

\* the lookup without the membership test: set(inverted_index[term].keys())
search_term_unguarded(idx, term) ==
    LET touched == DefaultTouch(idx, term, <<>>)
    IN [val |-> DKeySet(DGet(touched, term)), idx |-> touched]

\* return set(inverted_index[term].keys()) if term in inverted_index else set()
search_term(idx, term) ==
    IF DHas(idx, term)
    THEN [val |-> DKeySet(DGet(idx, term)), idx |-> DefaultTouch(idx, term, <<>>)]
    ELSE [val |-> {}, idx |-> idx]

set_union(a, b) == a \cup b

set_intersection(a, b) == a \cap b

set_difference(a, b) == a \ b

\* query.lower().split()
QueryTokens(query) == SplitChunks([i \in 1..Len(query) |-> Lower(query[i])])

\* a universe taken from the postings instead of doc_map
AllDocsPosted(dm, idx) == UNION {DKeySet(idx[i][2]) : i \in 1..Len(idx)}

AllDocs(dm, idx) == DKeySet(dm)

\* a function that ends without its last return
FallthroughNone == NoneResult

\* what a call that matches none of the branches returns
Fallthrough == SetResult({})

boolean_search(idx, dm, query) ==
    LET tokens == QueryTokens(query)
        all_docs == AllDocs(dm, idx)
    IN IF Len(tokens) = 1
       THEN LET s == search_term(idx, tokens[1])
            IN [res |-> SetResult(s.val), idx |-> s.idx]
       ELSE IF Len(tokens) = 2 /\ tokens[1] = "not"
       THEN LET s == search_term(idx, tokens[2])
            IN [res |-> SetResult(set_difference(all_docs, s.val)), idx |-> s.idx]
       ELSE IF Len(tokens) = 3
       THEN LET s1 == search_term(idx, tokens[1])
                s2 == search_term(s1.idx, tokens[3])
            IN IF tokens[2] = "and"
               THEN [res |-> SetResult(set_intersection(s1.val, s2.val)), idx |-> s2.idx]
               ELSE IF tokens[2] = "or"
               THEN [res |-> SetResult(set_union(s1.val, s2.val)), idx |-> s2.idx]
               ELSE [res |-> Fallthrough, idx |-> s2.idx]
       ELSE [res |-> Fallthrough, idx |-> idx]

\* a test of the position next to the first word only
PhrasePosNext(pos, offset) == pos + 1

\* the position a later word of the phrase must hold
PhrasePos(pos, offset) == pos + offset

RECURSIVE MatchFrom(_, _, _, _, _)
\* for offset, word in enumerate(words[1:], 1): ... ; [match, idx]
MatchFrom(idx, words, doc_id, pos, offset) ==
    IF offset > Len(words) - 1 THEN [match |-> TRUE, idx |-> idx]
    ELSE LET word == words[offset + 1]
             post_map == DGetOr(idx, word, <<>>)
         IN IF ~DHas(post_map, doc_id) THEN [match |-> FALSE, idx |-> idx]
            ELSE \* post_map[doc_id] on a key that is present
                 IF PhrasePos(pos, offset) \notin Range(DGet(post_map, doc_id))
                 THEN [match |-> FALSE, idx |-> idx]
                 ELSE MatchFrom(idx, words, doc_id, pos, offset + 1)

RECURSIVE ScanPositions(_, _, _, _, _)
\* for pos in positions: ... if match: result.add(doc_id); break ; [match, idx]
ScanPositions(idx, words, doc_id, positions, i) ==
    IF i > Len(positions) THEN [match |-> FALSE, idx |-> idx]
    ELSE LET m == MatchFrom(idx, words, doc_id, positions[i], 1)
         IN IF m.match THEN m
            ELSE ScanPositions(m.idx, words, doc_id, positions, i + 1)

RECURSIVE ScanPostings(_, _, _, _, _)
\* for doc_id, positions in first_postings.items(): ...
ScanPostings(idx, words, first_postings, j, result) ==
    IF j > Len(first_postings) THEN [res |-> SetResult(result), idx |-> idx]
    ELSE LET doc_id == first_postings[j][1]
             positions == first_postings[j][2]
             m == ScanPositions(idx, words, doc_id, positions, 1)
         IN ScanPostings(m.idx, words, first_postings, j + 1,
                         IF m.match THEN result \cup {doc_id} ELSE result)

phrase_search(idx, phrase_raw) ==
    LET words == preprocess(phrase_raw)
    IN IF words = <<>> THEN [res |-> SetResult({}), idx |-> idx]
       ELSE ScanPostings(idx, words, DGetOr(idx, words[1], <<>>), 1, {})

call_search_term(term) ==
    /\ Ready("bool")
    /\ LET s == search_term(inverted_index, term)
       IN /\ res' = SetResult(s.val)
          /\ inverted_index' = s.idx
    /\ op' = [name |-> "search_term", arg |-> term]
    /\ pc' = "returned"
    /\ UNCHANGED <<prog, term_doc_freq, doc_map, doc_lengths, doc_id_counter, lsi,
                   enumerated, built>>

call_boolean_search(query) ==
    /\ Ready("bool")
    /\ LET r == boolean_search(inverted_index, doc_map, query)
       IN /\ res' = r.res
          /\ inverted_index' = r.idx
    /\ op' = [name |-> "boolean_search", arg |-> query]
    /\ pc' = "returned"
    /\ UNCHANGED <<prog, term_doc_freq, doc_map, doc_lengths, doc_id_counter, lsi,
                   enumerated, built>>

call_phrase_search(phrase_raw) ==
    /\ Ready("bool")
    /\ LET r == phrase_search(inverted_index, phrase_raw)
       IN /\ res' = r.res
          /\ inverted_index' = r.idx
    /\ op' = [name |-> "phrase_search", arg |-> phrase_raw]
    /\ pc' = "returned"
    /\ UNCHANGED <<prog, term_doc_freq, doc_map, doc_lengths, doc_id_counter, lsi,
                   enumerated, built>>

\* the caller takes the result (main prints it) and is ready for the next call
print_results ==
    /\ pc = "returned"
    /\ pc' = "idle"
    /\ op' = [name |-> "none", arg |-> <<>>]
    /\ res' = NoResult
    /\ UNCHANGED <<prog, inverted_index, term_doc_freq, doc_map, doc_lengths,
                   doc_id_counter, lsi, enumerated, built>>

(***************************************************************************)
(* VectorLyricsIR.py.  Floats are fixed-point: a weight tf*idf and a norm   *)
(* count 1/100, a cosine score counts 1/1000.                              *)
(***************************************************************************)
\* 1000 * ln(n), n = 1..8
LnMilli == <<0, 693, 1099, 1386, 1609, 1792, 1946, 2079>>

\* math.log((1+N)/(1+df)) + 1, in 1/100
Idf(N, df) == (LnMilli[1 + N] - LnMilli[1 + df]) \div 10 + 100

RECURSIVE ISqrtBetween(_, _, _)
ISqrtBetween(n, lo, hi) ==
    IF lo >= hi THEN lo
    ELSE LET mid == (lo + hi + 1) \div 2
         IN IF mid * mid <= n THEN ISqrtBetween(n, mid, hi)
            ELSE ISqrtBetween(n, lo, mid - 1)

\* math.sqrt on a sum of squared weights
Sqrt(n) == ISqrtBetween(n, 0, Min(n, 46340))

RECURSIVE CounterFrom(_, _, _)
CounterFrom(tokens, n, acc) ==
    IF n > Len(tokens) THEN acc
    ELSE CounterFrom(tokens, n + 1, DSet(acc, tokens[n], DGetOr(acc, tokens[n], 0) + 1))

\* collections.Counter(tokens): term -> count, in order of first occurrence
Counter(tokens) == CounterFrom(tokens, 1, <<>>)

RECURSIVE RecordFreqs(_, _, _, _)
\* for term, freq in tf.items(): term_doc_freq[term][doc_id_counter] = freq
RecordFreqs(tdf, tf, doc_id, n) ==
    IF n > Len(tf) THEN tdf
    ELSE LET term == tf[n][1]
             freq == tf[n][2]
             outer == DefaultTouch(tdf, term, <<>>)
         IN RecordFreqs(DSet(outer, term, DSet(DGet(outer, term), doc_id, freq)),
                        tf, doc_id, n + 1)

RECURSIVE VecBuildLoop(_, _, _)
\* the two nested listdir loops over one flattened listing; st = [tdf, dm, ctr]
VecBuildLoop(st, listing, n) ==
    IF n > Len(listing) THEN st
    ELSE LET e == listing[n] IN
         IF ~e.isdir THEN VecBuildLoop(st, listing, n + 1)
         ELSE IF ~EndsWithTxt(e.filename) THEN VecBuildLoop(st, listing, n + 1)
         ELSE LET ctr == st.ctr + 1
                  dm == DSet(st.dm, ctr, Label(e.artist, SplitExt(e.filename)))
                  tf == Counter(preprocess(e.content))
              IN VecBuildLoop([tdf |-> RecordFreqs(st.tdf, tf, ctr, 1),
                               dm |-> dm, ctr |-> ctr], listing, n + 1)

RECURSIVE SquaredWeights(_, _, _, _)
\* s += (tfv * idf) ** 2 over the terms of document d
SquaredWeights(tdf, d, N, n) ==
    IF n > Len(tdf) THEN 0
    ELSE LET freqs == tdf[n][2]
             tfv == DGetOr(freqs, d, 0)
             rest == SquaredWeights(tdf, d, N, n + 1)
         IN IF tfv = 0 THEN rest
            ELSE (tfv * Idf(N, Len(freqs))) * (tfv * Idf(N, Len(freqs))) + rest

RECURSIVE ComputeLengths(_, _, _, _)
\* for d in doc_map: doc_lengths[d] = math.sqrt(s)
ComputeLengths(dl, tdf, dm, n) ==
    IF n > Len(dm) THEN dl
    ELSE LET d == dm[n][1]
         IN ComputeLengths(DSet(dl, d, Sqrt(SquaredWeights(tdf, d, Len(dm), 1))),
                           tdf, dm, n + 1)

VecBuildStart(ctr) == ctr

vec_build_index(listing) ==
    /\ Ready("vector")
    /\ doc_id_counter + Len(IndexedOf(listing)) <= MaxVecDocs
    /\ LET st == VecBuildLoop([tdf |-> term_doc_freq, dm |-> doc_map,
                               ctr |-> VecBuildStart(doc_id_counter)], listing, 1)
           dl == ComputeLengths(doc_lengths, st.tdf, st.dm, 1)
       IN /\ term_doc_freq' = st.tdf
          /\ doc_map' = st.dm
          /\ doc_id_counter' = st.ctr
          /\ doc_lengths' = dl
          /\ built' = Snapshot(inverted_index, st.tdf, st.dm, dl)
    /\ enumerated' = enumerated \o IndexedOf(listing)
    /\ op' = [name |-> "build_index", arg |-> <<>>]
    /\ res' = NoneResult
    /\ pc' = "returned"
    /\ UNCHANGED <<prog, inverted_index, lsi>>

\* one entry of a ranked list: (doc_id, score); nan marks a score that is not a number
Item(d, score, nan) == [doc |-> d, score |-> score, nan |-> nan]

\* a < b on two float keys: false when either is NaN
KeyLess(a, b) == ~a.nan /\ ~b.nan /\ a.score < b.score

RECURSIVE InsertDesc(_, _, _)
\* the place of x: before the first item whose key is less than x's
InsertDesc(sorted, x, i) ==
    IF i > Len(sorted) THEN Append(sorted, x)
    ELSE IF KeyLess(sorted[i], x)
         THEN SubSeq(sorted, 1, i - 1) \o <<x>> \o SubSeq(sorted, i, Len(sorted))
         ELSE InsertDesc(sorted, x, i + 1)

RECURSIVE SortFrom(_, _, _)
SortFrom(items, n, acc) ==
    IF n > Len(items) THEN acc
    ELSE SortFrom(items, n + 1, InsertDesc(acc, items[n], 1))

\* sorted(scores.items(), key=lambda x: x[1], reverse=True): stable, so items
\* with equal keys keep the order of scores.items()
SortedByScore(items) == SortFrom(items, 1, <<>>)

RECURSIVE QueryVector(_, _, _, _, _)
\* for t, f in tfq.items(): qvec[t] = f * idf
QueryVector(tdf, N, tfq, n, qvec) ==
    IF n > Len(tfq) THEN qvec
    ELSE LET t == tfq[n][1]
             f == tfq[n][2]
             df == Len(DGetOr(tdf, t, <<>>))
         IN QueryVector(tdf, N, tfq, n + 1, DSet(qvec, t, f * Idf(N, df)))

RECURSIVE SumSquares(_, _)
SumSquares(qvec, n) ==
    IF n > Len(qvec) THEN 0 ELSE qvec[n][2] * qvec[n][2] + SumSquares(qvec, n + 1)

\* a score table that starts with every document at 0
InitialScoresAll(dm) == [i \in 1..Len(dm) |-> <<dm[i][1], 0>>]

\* the documents vsm_search scores before any posting is read
InitialScores(dm) == <<>>

RECURSIVE ScorePostings(_, _, _, _, _, _)
\* for d, tfv in term_doc_freq.get(t, {}).items(): scores[d] += w * (tfv * idf)
\* st = [scores, tdf]
ScorePostings(st, N, t, w, postings, n) ==
    IF n > Len(postings) THEN st
    ELSE LET d == postings[n][1]
             tfv == postings[n][2]
             tdf == DefaultTouch(st.tdf, t, <<>>)
             df == Len(DGet(tdf, t))
             old == DGetOr(st.scores, d, 0)
         IN ScorePostings([scores |-> DSet(st.scores, d, old + w * (tfv * Idf(N, df))),
                           tdf |-> tdf], N, t, w, postings, n + 1)

RECURSIVE ScoreTerms(_, _, _, _)
\* for t, w in qvec.items(): ...
ScoreTerms(st, N, qvec, n) ==
    IF n > Len(qvec) THEN st
    ELSE LET t == qvec[n][1]
             w == qvec[n][2]
         IN ScoreTerms(ScorePostings(st, N, t, w, DGetOr(st.tdf, t, <<>>), 1),
                       N, qvec, n + 1)

\* scores[d] /= (qnorm * doc_lengths[d]) when both are non-zero, in 1/1000
Normalised(dot, qnorm, dlen) ==
    IF qnorm /= 0 /\ dlen /= 0 THEN (dot * 1000) \div (qnorm * dlen) ELSE dot \div 10

vsm_search(tdf0, dm, dl, query_terms) ==
    LET N == Len(dm)
        tfq == Counter(query_terms)
        qvec == QueryVector(tdf0, N, tfq, 1, <<>>)
        qnorm == Sqrt(SumSquares(qvec, 1))
        st == ScoreTerms([scores |-> InitialScores(dm), tdf |-> tdf0], N, qvec, 1)
        scores == st.scores
    IN IF \E i \in 1..Len(scores) : ~DHas(dl, scores[i][1])
       THEN [res |-> Raised("KeyError"), tdf |-> st.tdf]
       ELSE [res |-> Ranking(SortedByScore(
                        [i \in 1..Len(scores) |->
                            Item(scores[i][1],
                                 Normalised(scores[i][2], qnorm, DGet(dl, scores[i][1])),
                                 FALSE)])),
             tdf |-> st.tdf]

call_vsm_search(query_terms) ==
    /\ Ready("vector")
    /\ LET r == vsm_search(term_doc_freq, doc_map, doc_lengths, query_terms)
       IN /\ res' = r.res
          /\ term_doc_freq' = r.tdf
    /\ op' = [name |-> "vsm_search", arg |-> query_terms]
    /\ pc' = "returned"
    /\ UNCHANGED <<prog, inverted_index, doc_map, doc_lengths, doc_id_counter, lsi,
                   enumerated, built>>

(***************************************************************************)
(* The LSI model.  numpy's factorization is not computed: of U, s and Vt   *)
(* the model keeps the shapes, and of each singular value whether it is    *)
(* zero.  s has min(rows, columns) values in descending order; those past  *)
(* the matrix's rank are zero, or all round to a tiny positive number.     *)
(***************************************************************************)
K_DIM == 100

\* None, or an array: a matrix by its shape, a vector by its values
None == [is_none |-> TRUE, rows |-> 0, cols |-> 0, vals |-> <<>>]

Matrix(rows, cols) == [is_none |-> FALSE, rows |-> rows, cols |-> cols, vals |-> <<>>]

Vector(vals) == [is_none |-> FALSE, rows |-> Len(vals), cols |-> 1, vals |-> vals]

LsiInit ==
    [lsi_vocab |-> <<>>, term_index_map |-> <<>>, doc_index_map |-> <<>>,
     U_k |-> None, s_k |-> None, Vt_k |-> None, doc_latent |-> None]

\* {t: i for i, t in enumerate(keys)}
EnumerateMap(keys) == [i \in 1..Len(keys) |-> <<keys[i], i - 1>>]

\* the set S of integers in ascending order
Ascending(S) ==
    Listed([i \in 1..Cardinality(S) |-> CHOOSE x \in S : Cardinality({y \in S : y < x}) = i - 1],
           Cardinality(S))

Minor(A, c) ==
    Listed([r \in 1..(Len(A) - 1) |->
              Listed([cc \in 1..(Len(A) - 1) |-> A[r + 1][IF cc < c THEN cc ELSE cc + 1]],
                     Len(A) - 1)], Len(A) - 1)

RECURSIVE Det(_)
\* the determinant of the minor of A without row 1 and column c, the minor built once
DetOfMinor(A, c) == CHOOSE r \in {Det(x) : x \in {Minor(A, c)}} : TRUE

RECURSIVE DetExpand(_, _)
DetExpand(A, c) ==
    IF c > Len(A) THEN 0
    ELSE (IF c % 2 = 1 THEN 1 ELSE -1) * A[1][c] * DetOfMinor(A, c) + DetExpand(A, c + 1)

Det(A) == IF Len(A) = 0 THEN 1 ELSE IF Len(A) = 1 THEN A[1][1] ELSE DetExpand(A, 1)

\* M[i, j] up to the positive factor idf of row i: the term frequency
TfMatrix(tdf, vocab, doc_ids) ==
    Listed([i \in 1..Len(vocab) |->
              Listed([j \in 1..Len(doc_ids) |-> DGetOr(DGet(tdf, vocab[i]), doc_ids[j], 0)],
                     Len(doc_ids))], Len(vocab))

RECURSIVE ColumnDot(_, _, _, _)
\* the inner product of columns a and b of A, rows i..Len(A)
ColumnDot(A, a, b, i) ==
    IF i > Len(A) THEN 0 ELSE A[i][a] * A[i][b] + ColumnDot(A, a, b, i + 1)

\* the Gram matrix of the columns cols of A
Gram(A, cols) ==
    Listed([a \in 1..Len(cols) |->
              Listed([b \in 1..Len(cols) |-> ColumnDot(A, cols[a], cols[b], 1)], Len(cols))],
           Len(cols))

\* the rank of M: the most columns that are linearly independent, which is when
\* their Gram determinant is not zero (scaling a row by idf > 0 does not change it)
RankOf(A, m, n) ==
    LET independent(D) == \E G \in {Gram(A, Ascending(D))} : Det(G) /= 0
    IN CHOOSE r \in {MaxOf(sizes) :
                       sizes \in {{Cardinality(D) : D \in {C \in SUBSET (1..n) : independent(C)}}}} :
          TRUE

\* np.linalg.svd(M, full_matrices=False): the singular values, "pos" or "zero"
SingularValues(A, m, n, rounding) ==
    CHOOSE s \in {Listed([i \in 1..Min(m, n) |-> IF i <= rank THEN "pos" ELSE rounding],
                         Min(m, n)) : rank \in {RankOf(A, m, n)}} : TRUE

\* the norm of column j of doc_latent = diag(s_k) @ Vt_k is the norm of column j
\* of M when every singular value is retained: zero for a document without terms
ColumnNorms(A, m, n) ==
    [j \in 1..n |-> IF \A i \in 1..m : A[i][j] = 0 THEN "zero" ELSE "pos"]

\* k = min(K_DIM, len(s))
Retained(len_s) == Min(K_DIM, len_s)

build_lsi_model(rounding, empty_ok) ==
    /\ Ready("vector")
    /\ LET lsi_vocab == DKeys(term_doc_freq)
           doc_ids == DKeys(doc_map)
           m == Len(lsi_vocab)
           n == Len(doc_ids)
           named == [lsi EXCEPT !.lsi_vocab = lsi_vocab,
                                !.term_index_map = EnumerateMap(lsi_vocab),
                                !.doc_index_map = EnumerateMap(doc_ids)]
       IN IF (m = 0 \/ n = 0) /\ ~empty_ok
          THEN \* svd refuses an empty matrix: the three maps are already assigned
               /\ lsi' = named
               /\ res' = Raised("LinAlgError")
          ELSE \E A \in {TfMatrix(term_doc_freq, lsi_vocab, doc_ids)} :
               \E s \in {SingularValues(A, m, n, rounding)} :
                  LET k == Retained(Len(s))
                  IN /\ lsi' = [named EXCEPT !.U_k = Matrix(m, k),
                                             !.s_k = Vector(SubSeq(s, 1, k)),
                                             !.Vt_k = Matrix(k, n),
                                             !.doc_latent = [Matrix(k, n) EXCEPT
                                                                !.vals = ColumnNorms(A, m, n)]]
                     /\ res' = NoneResult
    /\ op' = [name |-> "build_lsi_model", arg |-> <<>>]
    /\ pc' = "returned"
    /\ UNCHANGED <<prog, inverted_index, term_doc_freq, doc_map, doc_lengths,
                   doc_id_counter, enumerated, built>>

RECURSIVE LsiQueryVector(_, _, _, _, _)
\* for t, f in tfq.items(): if t in term_index_map: ... qvec[i] = f * idf
\* st = [qvec, tdf]
LsiQueryVector(st, N, tim, tfq, n) ==
    IF n > Len(tfq) THEN st
    ELSE LET t == tfq[n][1]
             f == tfq[n][2]
         IN IF DHas(tim, t)
            THEN LET i == DGet(tim, t)
                     tdf == DefaultTouch(st.tdf, t, <<>>)
                     df == Len(DGet(tdf, t))
                 IN LsiQueryVector([qvec |-> [st.qvec EXCEPT ![i + 1] = f * Idf(N, df)],
                                    tdf |-> tdf], N, tim, tfq, n + 1)
            ELSE LsiQueryVector(st, N, tim, tfq, n + 1)

\* (U_k.T @ qvec) / s_k, per component: a number, or inf/NaN where s_k is zero
QLatent(s_k) == [i \in 1..Len(s_k) |-> IF s_k[i] = "zero" THEN "inf_or_nan" ELSE "number"]

\* the score of the document in column j
LatentScore(d, q_latent, qvec, dn, cosine) ==
    LET qbad == \E i \in 1..Len(q_latent) : q_latent[i] = "inf_or_nan"
        qnorm_nonzero == qbad \/ \E i \in 1..Len(qvec) : qvec[i] /= 0
    IN IF qnorm_nonzero /\ dn /= "zero"
       THEN (IF qbad THEN Item(d, 0, TRUE) ELSE Item(d, cosine, FALSE))
       ELSE Item(d, 0, FALSE)

lsi_search(tdf0, dm, model, query_terms, cosines) ==
    LET N == Len(dm)
        tfq == Counter(query_terms)
        st == LsiQueryVector([qvec |-> [i \in 1..Len(model.lsi_vocab) |-> 0], tdf |-> tdf0],
                             N, model.term_index_map, tfq, 1)
    IN IF model.U_k.is_none
       THEN \* U_k.T on None
            [res |-> Raised("AttributeError"), tdf |-> st.tdf]
       ELSE LET q_latent == QLatent(model.s_k.vals)
                dim == model.doc_index_map
                scores == [n \in 1..Len(dim) |->
                             LatentScore(dim[n][1], q_latent, st.qvec,
                                         model.doc_latent.vals[dim[n][2] + 1],
                                         cosines[dim[n][2] + 1])]
            IN [res |-> Ranking(SortedByScore(scores)), tdf |-> st.tdf]

call_lsi_search(query_terms, cosines) ==
    /\ Ready("vector")
    /\ LET r == lsi_search(term_doc_freq, doc_map, lsi, query_terms, cosines)
       IN /\ res' = r.res
          /\ term_doc_freq' = r.tdf
    /\ op' = [name |-> "lsi_search", arg |-> query_terms]
    /\ pc' = "returned"
    /\ UNCHANGED <<prog, inverted_index, doc_map, doc_lengths, doc_id_counter, lsi,
                   enumerated, built>>

\* the values a cosine between latent vectors is drawn from, in 1/1000
LatentCosines == {-500, 500}

(***************************************************************************)
(* Evaluation.  A float is the exact fraction <<numerator, denominator>>.  *)
(***************************************************************************)
FracAdd(x, a, b) == <<x[1] * b + a * x[2], x[2] * b>>

FracEq(x, y) == x[1] * y[2] = y[1] * x[2]

\* the rank enumerate(ranked, start=1) gives the n-th entry
RankOfEntry(n) == n

RECURSIVE AveragePrecisionLoop(_, _, _, _, _)
\* for i, (doc_id, _) in enumerate(ranked, start=1): ...
AveragePrecisionLoop(ranked, relevant_set, n, hits, total) ==
    IF n > Len(ranked) THEN total
    ELSE IF ranked[n].doc \in relevant_set
         THEN AveragePrecisionLoop(ranked, relevant_set, n + 1, hits + 1,
                                   FracAdd(total, hits + 1, RankOfEntry(n)))
         ELSE AveragePrecisionLoop(ranked, relevant_set, n + 1, hits, total)

\* a normalisation by the length of the ranked list
average_precision_per_rank(ranked, relevant_set) ==
    IF relevant_set = {} THEN <<0, 1>>
    ELSE LET total == AveragePrecisionLoop(ranked, relevant_set, 1, 0, <<0, 1>>)
         IN <<total[1], total[2] * Max(Len(ranked), 1)>>

average_precision(ranked, relevant_set) ==
    IF relevant_set = {} THEN <<0, 1>>
    ELSE LET total == AveragePrecisionLoop(ranked, relevant_set, 1, 0, <<0, 1>>)
         IN <<total[1], total[2] * Cardinality(relevant_set)>>

call_average_precision(ranked, relevant_set) ==
    /\ Ready("eval")
    /\ res' = [kind |-> "number", val |-> average_precision(ranked, relevant_set)]
    /\ op' = [name |-> "average_precision", arg |-> [ranked |-> ranked, relevant_set |-> relevant_set]]
    /\ pc' = "returned"
    /\ UNCHANGED <<prog, inverted_index, term_doc_freq, doc_map, doc_lengths,
                   doc_id_counter, lsi, enumerated, built>>

RankedLists == SeqsUpTo({Item(d, 0, FALSE) : d \in 1..MaxRank}, MaxRank)

Init ==
    /\ prog \in {"bool", "vector", "eval"}
    /\ pc = "idle"
    /\ op = [name |-> "none", arg |-> <<>>]
    /\ res = NoResult
    /\ inverted_index = <<>>
    /\ term_doc_freq = <<>>
    /\ doc_map = <<>>
    /\ doc_lengths = <<>>
    /\ doc_id_counter = 0
    /\ lsi = LsiInit
    /\ enumerated = <<>>
    /\ built = Snapshot(<<>>, <<>>, <<>>, <<>>)

Next ==
    \/ /\ Ready("bool")
       /\ \E listing \in Listings(BoolEntries, MaxListing) : bool_build_index(listing)
    \/ /\ Ready("bool")
       /\ \E term \in {Lower(c) : c \in BoolChunks} : call_search_term(term)
    \/ /\ Ready("bool")
       /\ \E query \in SeqsUpTo(BoolChunks, MaxQueryLen) : call_boolean_search(query)
    \/ /\ Ready("bool")
       /\ \E phrase_raw \in SeqsUpTo(PhraseChunks, MaxPhraseLen) : call_phrase_search(phrase_raw)
    \/ /\ Ready("vector")
       /\ \E listing \in Listings(VecEntries, MaxListing) : vec_build_index(listing)
    \/ /\ Ready("vector")
       /\ \E query_terms \in SeqsUpTo(VecTerms, MaxTerms) : call_vsm_search(query_terms)
    \/ /\ Ready("vector")
       /\ \E rounding \in {"zero", "pos"}, empty_ok \in BOOLEAN :
             build_lsi_model(rounding, empty_ok)
    \/ /\ Ready("vector")
       /\ \E query_terms \in SeqsUpTo(VecTerms, MaxTerms),
             cosines \in [1..Len(lsi.doc_index_map) -> LatentCosines] :
             call_lsi_search(query_terms, cosines)
    \/ /\ Ready("eval")
       /\ \E ranked \in RankedLists, relevant_set \in SUBSET (1..MaxRank) :
             call_average_precision(ranked, relevant_set)
    \/ print_results

Spec == Init /\ [][Next]_vars

(***************************************************************************)
(* What the index must hold, read off the files that were enumerated.      *)
(***************************************************************************)
Returned(name) == pc = "returned" /\ op.name = name

DocIds == DKeySet(doc_map)

\* the stopword-filtered token stream of document d
DocTokens(d) == preprocess(enumerated[d].content)

\* the 0-based offsets of term t in a token stream, ascending
PositionsOf(tokens, t) == Ascending({q \in 0..(Len(tokens) - 1) : tokens[q + 1] = t})

\* the documents with a posting for term t
PostingDocs(t) ==
    {d \in DocIds : DHas(inverted_index, t) /\ DHas(DGet(inverted_index, t), d)}

\* the positions posted for (t, d)
PostedPositions(t, d) == Range(DGet(DGet(inverted_index, t), d))

RankedDocs == [i \in 1..Len(res.val) |-> res.val[i].doc]

(***************************************************************************)
(* C1: boolean_search("t") is the set of documents with a posting for t;   *)
(* "not t" is every key of doc_map minus that set, documents without any   *)
(* indexed term included; "t1 and t2" is the intersection and "t1 or t2"   *)
(* the union of the two single-term sets.                                  *)
(***************************************************************************)
C1_BooleanSets ==
    Returned("boolean_search") =>
        LET tokens == QueryTokens(op.arg) IN
        /\ Len(tokens) = 1 => res = SetResult(PostingDocs(tokens[1]))
        /\ (Len(tokens) = 2 /\ tokens[1] = "not") =>
               res = SetResult(DocIds \ PostingDocs(tokens[2]))
        /\ (Len(tokens) = 3 /\ tokens[2] = "and") =>
               res = SetResult(PostingDocs(tokens[1]) \cap PostingDocs(tokens[3]))
        /\ (Len(tokens) = 3 /\ tokens[2] = "or") =>
               res = SetResult(PostingDocs(tokens[1]) \cup PostingDocs(tokens[3]))

\* "not love" has returned a document that has no indexed term at all
C1_Witness ==
    /\ Returned("boolean_search")
    /\ QueryTokens(op.arg) = <<"not", "love">>
    /\ PostingDocs("love") /= {}
    /\ \E d \in res.val : DocTokens(d) = <<>>

(***************************************************************************)
(* C2: boolean_search and phrase_search return a set and never raise; a    *)
(* query of none of the four shapes, an unknown term and a phrase whose    *)
(* filtered token list is empty give the empty set.                        *)
(***************************************************************************)
Malformed(tokens) ==
    \/ Len(tokens) = 0
    \/ Len(tokens) = 2 /\ tokens[1] /= "not"
    \/ Len(tokens) = 3 /\ tokens[2] \notin {"and", "or"}
    \/ Len(tokens) >= 4

C2_LenientQueries ==
    /\ Returned("boolean_search") =>
           LET tokens == QueryTokens(op.arg) IN
           /\ res.kind = "set" /\ res.val \subseteq DocIds
           /\ Malformed(tokens) => res.val = {}
           /\ (Len(tokens) = 1 /\ ~DHas(inverted_index, tokens[1])) => res.val = {}
    /\ Returned("phrase_search") =>
           LET words == preprocess(op.arg) IN
           /\ res.kind = "set" /\ res.val \subseteq DocIds
           /\ words = <<>> => res.val = {}
           /\ (\E i \in 1..Len(words) : ~DHas(inverted_index, words[i])) => res.val = {}

\* three tokens around an unknown operator, both outer terms being indexed
C2_Witness ==
    /\ Returned("boolean_search")
    /\ Len(QueryTokens(op.arg)) = 3
    /\ QueryTokens(op.arg)[2] = "not"
    /\ PostingDocs(QueryTokens(op.arg)[1]) /= {}
    /\ PostingDocs(QueryTokens(op.arg)[3]) /= {}
    /\ res.val = {}

(***************************************************************************)
(* C3: no query changes the index: inverted_index, term_doc_freq, their    *)
(* inner maps, doc_map and doc_lengths are what build_index left, and no   *)
(* term or (term, doc) entry is empty.                                     *)
(***************************************************************************)
NoEmptyEntry(idx, empty) ==
    \A i \in 1..Len(idx) :
        /\ idx[i][2] /= <<>>
        /\ \A n \in 1..Len(idx[i][2]) : idx[i][2][n][2] /= empty

C3_QueriesDoNotMutate ==
    /\ inverted_index = built.inverted_index
    /\ term_doc_freq = built.term_doc_freq
    /\ doc_map = built.doc_map
    /\ doc_lengths = built.doc_lengths
    /\ NoEmptyEntry(inverted_index, <<>>)
    /\ NoEmptyEntry(term_doc_freq, 0)

\* a term that is not indexed was looked up in an index that holds others
C3_Witness ==
    /\ Returned("boolean_search")
    /\ Len(QueryTokens(op.arg)) = 1
    /\ ~DHas(inverted_index, QueryTokens(op.arg)[1])
    /\ inverted_index /= <<>>

(***************************************************************************)
(* C4: for a phrase whose filtered words w0..wn are not empty, document d  *)
(* is in phrase_search's result exactly when some position p posted for    *)
(* (w0, d) has p+i posted for (wi, d) for every i in 1..n, which is when   *)
(* w0..wn stand at offsets p..p+n of d's filtered token stream.            *)
(***************************************************************************)
C4_PhraseMatch ==
    Returned("phrase_search") =>
        LET words == preprocess(op.arg) IN
        words /= <<>> =>
            /\ res.kind = "set"
            /\ res.val =
                 {d \in PostingDocs(words[1]) :
                    \E q \in PostedPositions(words[1], d) :
                       \A i \in 1..(Len(words) - 1) :
                          /\ d \in PostingDocs(words[i + 1])
                          /\ q + i \in PostedPositions(words[i + 1], d)}
            /\ res.val =
                 {d \in DocIds :
                    \E q \in 0..(Len(DocTokens(d)) - 1) :
                       \A i \in 0..(Len(words) - 1) :
                          /\ q + i + 1 <= Len(DocTokens(d))
                          /\ DocTokens(d)[q + i + 1] = words[i + 1]}

\* "love war" found in "Love! love war": not at the first position of love
C4_Witness ==
    /\ Returned("phrase_search")
    /\ preprocess(op.arg) = <<"love", "war">>
    /\ \E d \in res.val : DocTokens(d) = <<"love", "love", "war">>

(***************************************************************************)
(* C5: the list vsm_search or lsi_search returns is sorted by score        *)
(* descending, entries of equal score in ascending document id order.      *)
(***************************************************************************)
C5_RankedOrder ==
    (Returned("vsm_search") \/ Returned("lsi_search")) /\ res.kind = "ranking" =>
        \A i, j \in 1..Len(res.val) :
            i < j =>
                /\ ~res.val[i].nan /\ ~res.val[j].nan
                /\ \/ res.val[i].score > res.val[j].score
                   \/ res.val[i].score = res.val[j].score /\ res.val[i].doc < res.val[j].doc

(***************************************************************************)
(* C6: vsm_search ranks every indexed document, one that shares no term    *)
(* with the query with score 0 and after those with a positive score: for  *)
(* "love" on D1 = love love song, D2 = love is blind, D3 = war and peace   *)
(* the order is D1, D2, D3 and D3's score is 0.                            *)
(***************************************************************************)
SharesTerm(d, query_terms) == Range(query_terms) \cap Range(DocTokens(d)) /= {}

LoveCorpus ==
    /\ Len(enumerated) = 3
    /\ enumerated[1].content = <<"love", "love", "song">>
    /\ enumerated[2].content = <<"Love", "is", "blind">>
    /\ enumerated[3].content = <<"war", "and", "peace">>

C6_EveryDocumentRanked ==
    Returned("vsm_search") =>
        /\ res.kind = "ranking"
        /\ Range(RankedDocs) = DocIds
        /\ \A i \in 1..Len(res.val) :
              ~SharesTerm(res.val[i].doc, op.arg) => res.val[i].score = 0
        /\ (LoveCorpus /\ op.arg = <<"love">>) =>
              RankedDocs = <<1, 2, 3>> /\ res.val[3].score = 0

(***************************************************************************)
(* C6, amended: vsm_search ranks exactly the documents that share a term   *)
(* with the query, each once and with a positive score; a document that    *)
(* shares none is not in the list.  For "love" on D1, D2, D3 the list is   *)
(* D1, D2, D1 scoring higher, and D3 is absent.                            *)
(***************************************************************************)
C6_OnlyMatchingRanked ==
    Returned("vsm_search") =>
        /\ res.kind = "ranking"
        /\ Range(RankedDocs) = {d \in DocIds : SharesTerm(d, op.arg)}
        /\ Len(res.val) = Cardinality(Range(RankedDocs))
        /\ \A i \in 1..Len(res.val) : ~res.val[i].nan /\ res.val[i].score > 0
        /\ (LoveCorpus /\ op.arg = <<"love">>) =>
              RankedDocs = <<1, 2>> /\ res.val[1].score > res.val[2].score

C6_Witness ==
    /\ Returned("vsm_search")
    /\ LoveCorpus
    /\ op.arg = <<"love">>
    /\ RankedDocs = <<1, 2>>

(***************************************************************************)
(* C7: lsi_search never divides by a zero singular value, so no latent     *)
(* score is infinite or NaN, rank-deficient corpora included.              *)
(***************************************************************************)
C7_NoNaNScore ==
    Returned("lsi_search") /\ res.kind = "ranking" =>
        \A i \in 1..Len(res.val) : ~res.val[i].nan

(***************************************************************************)
(* C8: average_precision is (1/|relevant|) times the sum, over the ranks i *)
(* of the ranked list that hold a relevant document, of (relevant entries  *)
(* at ranks 1..i) / i; exactly 0.0 for an empty relevant set; and          *)
(* (1/2)*(1/1 + 2/3) for [D1, D2, D3] with relevant {D1, D3}.              *)
(***************************************************************************)
RECURSIVE Factorial(_)
Factorial(n) == IF n <= 1 THEN 1 ELSE n * Factorial(n - 1)

RECURSIVE SumOf(_, _)
SumOf(f, S) == IF S = {} THEN 0 ELSE LET e == CHOOSE y \in S : TRUE IN f[e] + SumOf(f, S \ {e})

\* the claimed value, over the common denominator Len(ranked)! * |relevant|
ClaimedAP(ranked, relevant) ==
    LET D == Factorial(Len(ranked))
        hit == {i \in 1..Len(ranked) : ranked[i].doc \in relevant}
        term == [i \in hit |-> Cardinality({j \in 1..i : ranked[j].doc \in relevant}) * (D \div i)]
    IN <<SumOf(term, hit), D * Cardinality(relevant)>>

C8_AveragePrecision ==
    Returned("average_precision") =>
        /\ res.val[2] > 0
        /\ IF op.arg.relevant_set = {}
           THEN res.val[1] = 0
           ELSE FracEq(res.val, ClaimedAP(op.arg.ranked, op.arg.relevant_set))
        /\ ([i \in 1..Len(op.arg.ranked) |-> op.arg.ranked[i].doc] = <<1, 2, 3>>
              /\ op.arg.relevant_set = {1, 3}) => FracEq(res.val, <<5, 6>>)

C8_Witness ==
    /\ Returned("average_precision")
    /\ [i \in 1..Len(op.arg.ranked) |-> op.arg.ranked[i].doc] = <<1, 2, 3>>
    /\ op.arg.relevant_set = {1, 3}
    /\ res.val[1] * 6 = 5 * res.val[2]

(***************************************************************************)
(* C9: after any number of build_index calls the keys of doc_map are 1..N, *)
(* the j-th file enumerated has id j, ids are not shared, every doc id in  *)
(* a posting is a key of doc_map, and the label and the postings of an id  *)
(* never change once assigned.                                             *)
(***************************************************************************)
\* what the index records for document d: the set of <<term, posting>>
DocPostings(idx, d) ==
    {<<idx[i][1], DGet(idx[i][2], d)>> : i \in {n \in 1..Len(idx) : DHas(idx[n][2], d)}}

C9_State ==
    /\ DKeys(doc_map) = [j \in 1..Len(enumerated) |-> j]
    /\ doc_id_counter = Len(enumerated)
    /\ \A j \in 1..Len(enumerated) :
          LET tokens == DocTokens(j) IN
          /\ DGet(doc_map, j) = Label(enumerated[j].artist, SplitExt(enumerated[j].filename))
          /\ prog = "bool" =>
                DocPostings(inverted_index, j) =
                    {<<t, PositionsOf(tokens, t)>> : t \in Range(tokens)}
          /\ prog = "vector" =>
                DocPostings(term_doc_freq, j) =
                    {<<t, Len(PositionsOf(tokens, t))>> : t \in Range(tokens)}
    /\ \A i \in 1..Len(inverted_index) : DKeySet(inverted_index[i][2]) \subseteq DocIds
    /\ \A i \in 1..Len(term_doc_freq) : DKeySet(term_doc_freq[i][2]) \subseteq DocIds

C9_Step ==
    \/ doc_map' = doc_map /\ inverted_index' = inverted_index /\ term_doc_freq' = term_doc_freq
    \/ \A d \in DocIds :
          /\ DHas(doc_map', d)
          /\ DGet(doc_map', d) = DGet(doc_map, d)
          /\ DocPostings(inverted_index', d) = DocPostings(inverted_index, d)
          /\ DocPostings(term_doc_freq', d) = DocPostings(term_doc_freq, d)

C9_SequentialIds == []C9_State /\ [][C9_Step]_vars

\* a second build_index has indexed the same file again, under the next id
C9_Witness ==
    /\ Returned("build_index")
    /\ Len(enumerated) = 2
    /\ enumerated[1] = enumerated[2]
    /\ DGet(doc_map, 1) = DGet(doc_map, 2)

(***************************************************************************)
(* C10: an lsi_search before build_lsi_model has completed fails, and one  *)
(* that returns a ranking returns one entry per document indexed at that   *)
(* moment, from a factorization of the index as it is at that moment.      *)
(***************************************************************************)
C10_LatentModelCurrent ==
    Returned("lsi_search") =>
        /\ lsi.U_k.is_none => res.kind = "raised"
        /\ res.kind = "ranking" =>
              /\ Len(res.val) = Len(doc_map)
              /\ Range(RankedDocs) = DocIds
              /\ DKeys(lsi.doc_index_map) = DKeys(doc_map)
              /\ lsi.lsi_vocab = DKeys(term_doc_freq)

====
